---------------------------- MODULE Spec2Model ----------------------------
(***************************************************************************)
(* A model of the expense analyzer (src/expense_analyzer.py) and of the    *)
(* chat front-end that drives it (src/app.py).                             *)
(*                                                                         *)
(* Strings that the code inspects (descriptions, keywords, queries) are    *)
(* tuples of characters, so that str.lower() and the substring test `in`   *)
(* are computed character by character.  An ASCII character is the string  *)
(* of that character; a character outside ASCII is the string "U+" and its *)
(* code point in hexadecimal ("U+00C9" is the capital E with acute).  The  *)
(* alphabet of the model is ASCII, the Latin-1 supplement and the five     *)
(* characters beyond it whose lower case is, or starts with, a character   *)
(* of ASCII or Latin-1.  Amounts are integers.                             *)
(* A data frame is a record [cols, rows, date_dtype]: the set of column    *)
(* names, the rows in file order (each a function from the column names to *)
(* its cells), and the dtype of the date column.                           *)
(***************************************************************************)
EXTENDS Integers, Sequences, FiniteSets, TLC

VARIABLES
    data,       \* ExpenseAnalyzer.data: None or a data frame
    anomalies,  \* ExpenseAnalyzer.anomalies: None or the flagged slice
    budgets,    \* ExpenseAnalyzer.budgets
    op,         \* the method or handler that ran last
    exc,        \* the exception it raised, "none" when it returned
    ret,        \* the value it returned (None when it raised)
    session,    \* cl.user_session["analyzer"]: None or "analyzer"
    pc,         \* position of the chat start / process_csv coroutine
    steps,      \* the analyzer methods completed by the current process_csv
    csv,        \* the CSV file at the path given to process_csv
    query,      \* the content of the message handle_query answered last, empty
                \* once prompt_budget_update has sent a message after it
    now,        \* the year of the clock, pd.Timestamp.now().year
    reply,      \* the last message sent to the user
    prompt,     \* position of the prompt_budget_update coroutine
    report_content  \* process_csv's local: the text generate_report returned

vars == <<data, anomalies, budgets, op, exc, ret, session, pc, steps, csv, query,
          now, reply, prompt, report_content>>
appvars == <<session, pc, steps, csv, query, now, reply, prompt, report_content>>

----------------------------------------------------------------------------
(* Bounds of the model *)

\* the largest number of rows of a CSV file
MaxRows == 2

----------------------------------------------------------------------------
(* Python and pandas values *)

None == [none |-> TRUE]
\* what pandas.read_csv stores for an empty text cell: in the category column
\* (categories are strings) and in the description column (descriptions are
\* tuples of characters)
NaN == "NaN"
NaNText == <<"NaN">>
\* a date cell that pandas.to_datetime cannot parse; dates are <<year, month>>
BadDate == <<0, 0>>

Exception(type, msg) == [type |-> type, msg |-> msg]
NoException == Exception("none", "")
NotLoaded == Exception("ValueError", "No data loaded. Call load_data first.")
MissingColumns == Exception("ValueError",
    "CSV must contain 'date', 'category', 'amount', 'description' columns")
DateParseError == Exception("ValueError", "Unknown datetime string format")
ReadError == Exception("FileNotFoundError", "No such file or directory")
EmptyInput == Exception("ValueError", "Found array with 0 sample(s)")
NotAString == Exception("AttributeError", "'float' object has no attribute 'lower'")
NotDatetime == Exception("AttributeError",
    "Can only use .dt accessor with datetimelike values")
NothingToPlot == Exception("TypeError", "no numeric data to plot")
EmptyBarPlot == Exception("IndexError",
    "index 0 is out of bounds for axis 0 with size 0")
NoAnalyzer == Exception("AttributeError",
    "'NoneType' object has no attribute 'budgets'")
NoneSubscript == Exception("TypeError", "'NoneType' object is not subscriptable")
KeyError(col) == Exception("KeyError", col)

\* a row is a function from the frame's column names to the cells
SetCol(row, col, v) ==
    [c \in (DOMAIN row) \cup {col} |-> IF c = col THEN v ELSE row[c]]

----------------------------------------------------------------------------
(* str.lower() and the substring test *)

\* str.lower() of one character, as the characters it becomes: the capitals
\* of ASCII and of the Latin-1 supplement become their small letters, the
\* capital I with dot above becomes i and the combining dot above, the Kelvin
\* sign becomes k, the Angstrom sign becomes the small a with ring, the
\* capital Y with diaeresis and the capital sharp s become their small
\* letters in Latin-1; every other character of the alphabet has no lower
\* case and stays
ToLowerChar(c) ==
    CASE c = "A" -> <<"a">> [] c = "B" -> <<"b">> [] c = "C" -> <<"c">>
      [] c = "D" -> <<"d">> [] c = "E" -> <<"e">> [] c = "F" -> <<"f">>
      [] c = "G" -> <<"g">> [] c = "H" -> <<"h">> [] c = "I" -> <<"i">>
      [] c = "J" -> <<"j">> [] c = "K" -> <<"k">> [] c = "L" -> <<"l">>
      [] c = "M" -> <<"m">> [] c = "N" -> <<"n">> [] c = "O" -> <<"o">>
      [] c = "P" -> <<"p">> [] c = "Q" -> <<"q">> [] c = "R" -> <<"r">>
      [] c = "S" -> <<"s">> [] c = "T" -> <<"t">> [] c = "U" -> <<"u">>
      [] c = "V" -> <<"v">> [] c = "W" -> <<"w">> [] c = "X" -> <<"x">>
      [] c = "Y" -> <<"y">> [] c = "Z" -> <<"z">>
      [] c = "U+00C0" -> <<"U+00E0">> [] c = "U+00C1" -> <<"U+00E1">>
      [] c = "U+00C2" -> <<"U+00E2">> [] c = "U+00C3" -> <<"U+00E3">>
      [] c = "U+00C4" -> <<"U+00E4">> [] c = "U+00C5" -> <<"U+00E5">>
      [] c = "U+00C6" -> <<"U+00E6">> [] c = "U+00C7" -> <<"U+00E7">>
      [] c = "U+00C8" -> <<"U+00E8">> [] c = "U+00C9" -> <<"U+00E9">>
      [] c = "U+00CA" -> <<"U+00EA">> [] c = "U+00CB" -> <<"U+00EB">>
      [] c = "U+00CC" -> <<"U+00EC">> [] c = "U+00CD" -> <<"U+00ED">>
      [] c = "U+00CE" -> <<"U+00EE">> [] c = "U+00CF" -> <<"U+00EF">>
      [] c = "U+00D0" -> <<"U+00F0">> [] c = "U+00D1" -> <<"U+00F1">>
      [] c = "U+00D2" -> <<"U+00F2">> [] c = "U+00D3" -> <<"U+00F3">>
      [] c = "U+00D4" -> <<"U+00F4">> [] c = "U+00D5" -> <<"U+00F5">>
      [] c = "U+00D6" -> <<"U+00F6">> [] c = "U+00D8" -> <<"U+00F8">>
      [] c = "U+00D9" -> <<"U+00F9">> [] c = "U+00DA" -> <<"U+00FA">>
      [] c = "U+00DB" -> <<"U+00FB">> [] c = "U+00DC" -> <<"U+00FC">>
      [] c = "U+00DD" -> <<"U+00FD">> [] c = "U+00DE" -> <<"U+00FE">>
      [] c = "U+0130" -> <<"i", "U+0307">>
      [] c = "U+0178" -> <<"U+00FF">>
      [] c = "U+1E9E" -> <<"U+00DF">>
      [] c = "U+212A" -> <<"k">>
      [] c = "U+212B" -> <<"U+00E5">>
      [] OTHER -> <<c>>

RECURSIVE lower(_)
lower(s) == IF s = <<>> THEN <<>> ELSE ToLowerChar(Head(s)) \o lower(Tail(s))

\* Python's `sub in s` for strings
Contains(sub, s) ==
    \E i \in 0..(Len(s) - Len(sub)) : \A j \in 1..Len(sub) : s[i + j] = sub[j]

----------------------------------------------------------------------------
(* ExpenseAnalyzer.__init__ *)

budgets_init ==
    [Food |-> 500, Travel |-> 1000, Utilities |-> 300, Entertainment |-> 200]

\* the dict keeps its insertion order; .items() yields the pairs in this order
category_keywords == <<
    [category |-> "Food", keywords |-> <<
        <<"c", "o", "f", "f", "e", "e">>,
        <<"r", "e", "s", "t", "a", "u", "r", "a", "n", "t">>,
        <<"c", "a", "f", "e">>,
        <<"l", "u", "n", "c", "h">>,
        <<"d", "i", "n", "n", "e", "r">>,
        <<"g", "r", "o", "c", "e", "r", "y">>>>],
    [category |-> "Travel", keywords |-> <<
        <<"f", "l", "i", "g", "h", "t">>,
        <<"u", "b", "e", "r">>,
        <<"t", "a", "x", "i">>,
        <<"h", "o", "t", "e", "l">>,
        <<"t", "r", "a", "i", "n">>>>],
    [category |-> "Utilities", keywords |-> <<
        <<"e", "l", "e", "c", "t", "r", "i", "c">>,
        <<"w", "a", "t", "e", "r">>,
        <<"i", "n", "t", "e", "r", "n", "e", "t">>,
        <<"b", "i", "l", "l">>>>],
    [category |-> "Entertainment", keywords |-> <<
        <<"m", "o", "v", "i", "e">>,
        <<"c", "o", "n", "c", "e", "r", "t">>,
        <<"g", "a", "m", "e">>,
        <<"t", "i", "c", "k", "e", "t">>>>] >>

\* the fields of the analyzer object that the methods read and write
Self == [data |-> data, anomalies |-> anomalies, budgets |-> budgets]

NewAnalyzer == [data |-> None, anomalies |-> None, budgets |-> budgets_init]

\* the two ways a method ends
Raise(self, e) == [self |-> self, exc |-> e, ret |-> None]
Return(self, v) == [self |-> self, exc |-> NoException, ret |-> v]

----------------------------------------------------------------------------
(* load_data *)

required_columns == {"date", "category", "amount", "description"}

\* pandas.read_csv: the frame as read, the date column still text
read_csv(file) ==
    [cols |-> file.cols, rows |-> file.rows, date_dtype |-> "object"]

\* pandas.to_datetime converts the whole column or raises
dates_parse(df) == \A i \in 1..Len(df.rows) : df.rows[i].date # BadDate

load_data(self, file) ==
    IF ~file.readable THEN Raise(self, ReadError)
    ELSE LET df == read_csv(file)
             assigned == [self EXCEPT !.data = df]
         IN  IF ~(required_columns \subseteq df.cols)
                 THEN Raise(assigned, MissingColumns)
             ELSE IF ~dates_parse(df)
                 THEN Raise(assigned, DateParseError)
             ELSE Return([self EXCEPT !.data =
                              [df EXCEPT !.date_dtype = "datetime64"]], None)

----------------------------------------------------------------------------
(* auto_categorize *)

any_keyword(keywords, description) ==
    \E k \in 1..Len(keywords) : Contains(keywords[k], description)

RECURSIVE first_category(_, _)
first_category(description, i) ==
    IF i > Len(category_keywords) THEN "Other"
    ELSE IF any_keyword(category_keywords[i].keywords, description)
         THEN category_keywords[i].category
         ELSE first_category(description, i + 1)

\* defined for str descriptions; a NaN has no .lower()
categorize_description(description) == first_category(lower(description), 1)

is_str(v) == v # NaNText

auto_categorize(self) ==
    IF self.data = None THEN Raise(self, NotLoaded)
    ELSE IF "description" \notin self.data.cols
        THEN Raise(self, KeyError("description"))
    ELSE IF \E i \in 1..Len(self.data.rows) : ~is_str(self.data.rows[i].description)
        THEN Raise(self, NotAString)
    ELSE Return([self EXCEPT
            !.data.rows = [i \in 1..Len(self.data.rows) |->
                SetCol(self.data.rows[i], "category",
                    categorize_description(self.data.rows[i].description))],
            !.data.cols = self.data.cols \cup {"category"}], None)

----------------------------------------------------------------------------
(* preprocess_data and detect_anomalies *)

\* The two derived columns are functions of the date; the model records that
\* the frame has them and does not store their values.
preprocess_data(self) ==
    IF self.data = None THEN Raise(self, NoneSubscript)
    ELSE IF "date" \notin self.data.cols THEN Raise(self, KeyError("date"))
    ELSE IF self.data.date_dtype # "datetime64" THEN Raise(self, NotDatetime)
    ELSE LET derived == [self EXCEPT !.data.cols =
                            self.data.cols \cup {"day_of_week", "month"}]
         IN  IF "amount" \notin derived.data.cols
                 THEN Raise(derived, KeyError("amount"))
                 ELSE Return(derived, Len(derived.data.rows))

\* The labels IsolationForest.fit_predict can give n rows: each row 1 (normal)
\* or -1 (outlier).  The forest is a library: the model allows every labelling
\* it could give, knowing only that an outlier scores strictly below a
\* percentile of the scores of the same rows, so that the rows are never all
\* outliers.
Labellings(n) == {l \in [1..n -> {1, -1}] : n > 0 => \E i \in 1..n : l[i] = 1}

\* DataFrame[mask]: the slice keeps the positions of the selected rows.  The
\* model keeps those positions and not a copy of the cells.
flagged(rows) ==
    [index |-> SelectSeq([i \in 1..Len(rows) |-> i],
                         LAMBDA i : rows[i].anomaly = -1)]

\* detection without the check that data was loaded: None['date'] raises
detect_anomalies_unguarded(self, labels) ==
    IF self.data = None THEN Raise(self, NoneSubscript)
    ELSE Return([self EXCEPT
            !.data.rows = [i \in 1..Len(self.data.rows) |->
                SetCol(self.data.rows[i], "anomaly", labels[i])],
            !.data.cols = self.data.cols \cup {"anomaly"}], None)

detect_anomalies(self, labels) ==
    IF self.data = None THEN Raise(self, NotLoaded)
    ELSE LET pre == preprocess_data(self)
         IN  IF pre.exc # NoException THEN Raise(pre.self, pre.exc)
             \* fit_predict refuses an array with no samples
             ELSE IF pre.ret = 0 THEN Raise(pre.self, EmptyInput)
             ELSE LET rows == [i \in 1..Len(pre.self.data.rows) |->
                                  SetCol(pre.self.data.rows[i], "anomaly", labels[i])]
                  IN  Return([pre.self EXCEPT
                                  !.data.rows = rows,
                                  !.data.cols = pre.self.data.cols \cup {"anomaly"},
                                  !.anomalies = flagged(rows)], None)

----------------------------------------------------------------------------
(* generate_summary *)

RECURSIVE sum_amounts(_)
sum_amounts(rows) ==
    IF rows = <<>> THEN 0 ELSE Head(rows).amount + sum_amounts(Tail(rows))

\* DataFrame.groupby('category')['amount'].sum(): one group per category value,
\* rows whose category is NaN belong to no group (dropna).
category_groups(rows) == {rows[i].category : i \in 1..Len(rows)} \ {NaN}

groupby_category_sum(rows) ==
    [g \in category_groups(rows) |->
        sum_amounts(SelectSeq(rows, LAMBDA r : r.category = g))]

\* Series.get(key, default)
series_get(series, key, default) ==
    IF key \in DOMAIN series THEN series[key] ELSE default

\* a comparison that also counts spending equal to the budget
over_budget_ge(spent, budget) == spent >= budget

over_budget(spent, budget) == spent > budget

budget_status(self_budgets, category_breakdown) ==
    [category \in DOMAIN self_budgets |->
        LET budget == self_budgets[category]
            spent == series_get(category_breakdown, category, 0)
        IN  [budget |-> budget,
             spent |-> spent,
             remaining |-> budget - spent,
             status |-> IF over_budget(spent, budget)
                            THEN "Over budget" ELSE "Within budget"]]

\* len(self.anomalies) if self.anomalies is not None else 0
anomaly_count(self) ==
    IF self.anomalies # None THEN Len(self.anomalies.index) ELSE 0

\* The mean is kept as the pair <<sum, count>>; count 0 is pandas' NaN.
generate_summary(self) ==
    IF self.data = None THEN Raise(self, NotLoaded)
    ELSE IF "amount" \notin self.data.cols THEN Raise(self, KeyError("amount"))
    ELSE IF "category" \notin self.data.cols THEN Raise(self, KeyError("category"))
    ELSE LET rows == self.data.rows
             category_breakdown == groupby_category_sum(rows)
         IN  Return(self,
                 [total_expenses |-> sum_amounts(rows),
                  avg_expense |-> <<sum_amounts(rows), Len(rows)>>,
                  category_breakdown |-> category_breakdown,
                  anomaly_count |-> anomaly_count(self),
                  budget_status |-> budget_status(self.budgets, category_breakdown)])

----------------------------------------------------------------------------
(* visualize_data *)

\* The charts are files; the analyzer's fields are only read.  The three
\* plots are drawn in the order of the code and the first that fails ends
\* the method.
\*   Plot 1, the daily totals as a line: trend is whether matplotlib draws
\*   it; drawing the empty series of a frame without rows is left to the
\*   library.
\*   Plot 2, the totals per category as bars: the bar plot of an empty
\*   series raises, and the series is empty when the frame has no rows or
\*   every category is NaN (groupby drops the NaN keys).
\*   Plot 3, the scatter of the records and of the flagged ones, drawn only
\*   when anomalies holds rows: it reads the date and amount columns that
\*   plot 1 has read.
visualize_data(self, trend) ==
    IF self.data = None THEN Raise(self, NotLoaded)
    ELSE IF "date" \notin self.data.cols THEN Raise(self, KeyError("date"))
    ELSE IF self.data.date_dtype # "datetime64" THEN Raise(self, NotDatetime)
    ELSE IF "amount" \notin self.data.cols THEN Raise(self, KeyError("amount"))
    ELSE IF ~trend THEN Raise(self, NothingToPlot)
    ELSE IF "category" \notin self.data.cols THEN Raise(self, KeyError("category"))
    ELSE IF category_groups(self.data.rows) = {} THEN Raise(self, EmptyBarPlot)
    ELSE Return(self, None)

\* the outcomes of the line plot that the model allows for a frame
PlotOutcomes(self) ==
    IF self.data # None /\ self.data.rows = <<>> THEN BOOLEAN ELSE {TRUE}

----------------------------------------------------------------------------
(* The CSV files given to load_data *)

CoffeeShop == <<"C", "o", "f", "f", "e", "e", " ", "s", "h", "o", "p">>
FlightTicket == <<"F", "l", "i", "g", "h", "t", " ", "t", "i", "c", "k", "e", "t">>
MovieTicket == <<"M", "o", "v", "i", "e", " ", "t", "i", "c", "k", "e", "t">>
\* "TAXI" written with the capital I with dot above
TaxiDotted == <<"T", "A", "X", "U+0130">>
Rent == <<"R", "e", "n", "t">>

Row(d, c, a, s) == [date |-> d, category |-> c, amount |-> a, description |-> s]

\* the rows of a file, by the cells they may hold
RowsOver(dates, categories, amounts, descriptions) ==
    {Row(d, c, a, s) : d \in dates, c \in categories, a \in amounts,
                       s \in descriptions}

Frames(rowset) == UNION {[1..n -> rowset] : n \in 0..MaxRows}

Restrict(row, cols) == [c \in cols |-> row[c]]

\* A file is unreadable (no such path), or has a header and rows: the well
\* formed files over rowset, the same with one required column left out, and
\* the same with one date cell that does not parse.
Files(rowset) ==
    {[readable |-> FALSE, cols |-> {}, rows |-> <<>>]}
    \cup {[readable |-> TRUE, cols |-> required_columns, rows |-> f] :
            f \in Frames(rowset)}
    \cup {[readable |-> TRUE, cols |-> required_columns \ {c},
           rows |-> [i \in 1..Len(f) |-> Restrict(f[i], required_columns \ {c})]] :
            f \in Frames(rowset), c \in required_columns}
    \cup UNION {{[readable |-> TRUE, cols |-> required_columns,
                  rows |-> [f EXCEPT ![k] = SetCol(f[k], "date", BadDate)]] :
                    k \in 1..Len(f)} : f \in Frames(rowset)}

\* files that vary the category and the amount (summary and budget status)
SummaryFiles ==
    Files(RowsOver({<<2025, 1>>}, {NaN, "Food"}, {200, 300}, {MovieTicket}))

\* files that vary the description and the category supplied by the user
CategoryFiles ==
    Files(RowsOver({<<2025, 1>>}, {"Uncategorized", "Food"}, {200},
                   {NaNText, CoffeeShop, FlightTicket, TaxiDotted, Rent}))

----------------------------------------------------------------------------
(* The analyzer used directly: any caller, any order of calls *)

Analyzer == [object |-> "ExpenseAnalyzer"]

\* no message has been sent yet
NoMessage == [kind |-> "none"]

\* the state after ExpenseAnalyzer() in a session that has not started, with
\* the clock in one of the given years
InitIn(years) ==
    /\ data = NewAnalyzer.data
    /\ anomalies = NewAnalyzer.anomalies
    /\ budgets = NewAnalyzer.budgets
    /\ op = "__init__"
    /\ exc = NoException
    /\ ret = None
    /\ session = None
    /\ pc = "idle"
    /\ steps = <<>>
    /\ csv = None
    /\ query = <<>>
    /\ now \in years
    /\ reply = NoMessage
    /\ prompt = "idle"
    /\ report_content = None

\* the analyzer never reads the clock
Init == InitIn({2026})

\* a method call ends: the object's fields, what it raised, what it returned
Apply(result, name) ==
    /\ data' = result.self.data
    /\ anomalies' = result.self.anomalies
    /\ budgets' = result.self.budgets
    /\ op' = name
    /\ exc' = result.exc
    /\ ret' = result.ret

RowCount == IF data = None THEN 0 ELSE Len(data.rows)

LoadData(file) ==
    /\ Apply(load_data(Self, file), "load_data")
    /\ UNCHANGED appvars

AutoCategorize ==
    /\ Apply(auto_categorize(Self), "auto_categorize")
    /\ UNCHANGED appvars

DetectAnomalies(labels) ==
    /\ Apply(detect_anomalies(Self, labels), "detect_anomalies")
    /\ UNCHANGED appvars

PreprocessData ==
    /\ Apply(preprocess_data(Self), "preprocess_data")
    /\ UNCHANGED appvars

GenerateSummary ==
    /\ Apply(generate_summary(Self), "generate_summary")
    /\ UNCHANGED appvars

VisualizeData(trend) ==
    /\ Apply(visualize_data(Self, trend), "visualize_data")
    /\ UNCHANGED appvars

AnalyzerNext(files) ==
    \/ \E file \in files : LoadData(file)
    \/ AutoCategorize
    \/ PreprocessData
    \/ \E labels \in Labellings(RowCount) : DetectAnomalies(labels)
    \/ GenerateSummary
    \/ \E trend \in PlotOutcomes(Self) : VisualizeData(trend)

Next == AnalyzerNext(SummaryFiles)

Spec == Init /\ [][Next]_vars

NextCat == AnalyzerNext(CategoryFiles)

SpecCat == Init /\ [][NextCat]_vars

----------------------------------------------------------------------------
(* Properties of the analyzer *)

Returned(name) == op = name /\ exc = NoException

\* data that load_data accepted
WellFormedData ==
    /\ data # None
    /\ required_columns \subseteq data.cols
    /\ data.date_dtype = "datetime64"

\* the rows of the loaded data that carry the outlier label
FlaggedRows ==
    {i \in 1..Len(data.rows) : "anomaly" \in data.cols /\ data.rows[i].anomaly = -1}

\* C1: the anomaly_count that generate_summary returns is the number of rows
\* of the loaded data whose anomaly flag is set when it is called.
AnomalyCountIsFlaggedRows ==
    (Returned("generate_summary") /\ WellFormedData) => ret.anomaly_count = Cardinality(FlaggedRows)

RECURSIVE SumOfGroups(_, _)
SumOfGroups(series, keys) ==
    IF keys = {} THEN 0
    ELSE LET k == CHOOSE x \in keys : TRUE
         IN  series[k] + SumOfGroups(series, keys \ {k})

RECURSIVE SpentOn(_, _, _)
SpentOn(rows, category, i) ==
    IF i > Len(rows) THEN 0
    ELSE (IF rows[i].category = category THEN rows[i].amount ELSE 0)
         + SpentOn(rows, category, i + 1)

RECURSIVE TotalOf(_, _)
TotalOf(rows, i) ==
    IF i > Len(rows) THEN 0 ELSE rows[i].amount + TotalOf(rows, i + 1)

\* C4: the per-category totals that generate_summary returns add up to the
\* total it returns, whatever categories the rows carry.
CategoryTotalsPartitionTotal ==
    (Returned("generate_summary") /\ WellFormedData) =>
        /\ ret.total_expenses = TotalOf(data.rows, 1)
        /\ SumOfGroups(ret.category_breakdown, DOMAIN ret.category_breakdown)
               = ret.total_expenses

\* C5: for every category of the budget table, spent is the sum of the amounts
\* of the rows with exactly that category, remaining is budget minus spent, and
\* the status is over budget exactly when spent is strictly above the budget.
BudgetStatusCorrect ==
    Returned("generate_summary") =>
        /\ DOMAIN ret.budget_status = DOMAIN budgets
        /\ \A c \in DOMAIN budgets :
              LET st == ret.budget_status[c]
                  spent == SpentOn(data.rows, c, 1)
              IN  /\ st.budget = budgets[c]
                  /\ st.spent = spent
                  /\ st.remaining = budgets[c] - spent
                  /\ st.status = (IF spent > budgets[c]
                                      THEN "Over budget" ELSE "Within budget")

\* a summary in which one category has spent exactly its budget and another
\* category nothing at all
BudgetBoundaryReached ==
    /\ Returned("generate_summary")
    /\ \E c \in DOMAIN budgets :
          /\ ret.budget_status[c].spent = budgets[c]
          /\ ret.budget_status[c].status = "Within budget"
    /\ \E c \in DOMAIN budgets :
          /\ ret.budget_status[c].spent = 0
          /\ \A i \in 1..Len(data.rows) : data.rows[i].category # c

\* C6: detection and summarization of loaded data with no rows end with an
\* error raised to the caller and return nothing.
EmptyDatasetIsRejected ==
    (/\ op \in {"detect_anomalies", "generate_summary"}
     /\ WellFormedData
     /\ data.rows = <<>>) => exc # NoException

Stages == {"auto_categorize", "detect_anomalies", "generate_summary", "visualize_data"}

\* C7: a stage called while no data is loaded raises the not-loaded error and
\* leaves data, anomalies and budgets as they were.
NotLoadedIsRaised ==
    [][(data = None /\ op' \in Stages) =>
            /\ exc' = NotLoaded
            /\ ret' = None
            /\ UNCHANGED <<data, anomalies, budgets>>]_vars

\* a stage has just been refused on an analyzer without data
StageRefusedWithoutData ==
    /\ data = None
    /\ op = "detect_anomalies"
    /\ exc = NotLoaded

\* C9: a load_data call that raises leaves the loaded data as it was.
FailedLoadKeepsData ==
    [][(op' = "load_data" /\ exc' # NoException) => data' = data]_vars

----------------------------------------------------------------------------
(* Properties of the categorizer *)

\* the category the keyword table gives a text: the first category, in the
\* table's order, one of whose keywords occurs in the lower-cased text
MatchingCategories(text) ==
    {i \in 1..Len(category_keywords) :
        \E k \in 1..Len(category_keywords[i].keywords) :
            Contains(category_keywords[i].keywords[k], lower(text))}

ExpectedCategory(description) ==
    LET text == IF description = NaNText THEN <<>> ELSE description
        m == MatchingCategories(text)
    IN  IF m = {} THEN "Other"
        ELSE category_keywords[CHOOSE i \in m : \A j \in m : i <= j].category

Categorized == op = "auto_categorize" /\ WellFormedData

\* C2: auto_categorize gives every loaded row the first category owning a
\* keyword of its description, "Other" when there is none (an empty
\* description included), whatever category the row had.
CategoryIsFirstKeywordMatch ==
    Categorized =>
        /\ "category" \in data.cols
        /\ \A i \in 1..Len(data.rows) :
              data.rows[i].category = ExpectedCategory(data.rows[i].description)

TableCategories ==
    {category_keywords[i].category : i \in 1..Len(category_keywords)} \cup {"Other"}

\* C3: once auto_categorize has run on the loaded rows, every row's category
\* is a key of the keyword table or "Other".
CategoryIsInTable ==
    Categorized =>
        /\ "category" \in data.cols
        /\ \A i \in 1..Len(data.rows) : data.rows[i].category \in TableCategories

----------------------------------------------------------------------------
(* The chat front-end: handle_query *)

s_budget == <<"b", "u", "d", "g", "e", "t">>
s_update_budget == <<"u", "p", "d", "a", "t", "e", "_", "b", "u", "d", "g", "e", "t">>
s_2025 == <<"2", "0", "2", "5">>

categories == <<
    <<"f", "o", "o", "d">>,
    <<"t", "r", "a", "v", "e", "l">>,
    <<"u", "t", "i", "l", "i", "t", "i", "e", "s">>,
    <<"e", "n", "t", "e", "r", "t", "a", "i", "n", "m", "e", "n", "t">> >>

months == <<
    <<"j", "a", "n", "u", "a", "r", "y">>,
    <<"f", "e", "b", "r", "u", "a", "r", "y">>,
    <<"m", "a", "r", "c", "h">>,
    <<"a", "p", "r", "i", "l">>,
    <<"m", "a", "y">>,
    <<"j", "u", "n", "e">>,
    <<"j", "u", "l", "y">>,
    <<"a", "u", "g", "u", "s", "t">>,
    <<"s", "e", "p", "t", "e", "m", "b", "e", "r">>,
    <<"o", "c", "t", "o", "b", "e", "r">>,
    <<"n", "o", "v", "e", "m", "b", "e", "r">>,
    <<"d", "e", "c", "e", "m", "b", "e", "r">> >>

\* str.capitalize() of the four lower-case names, as the category strings
capitalize(cat) ==
    CASE cat = categories[1] -> "Food"
      [] cat = categories[2] -> "Travel"
      [] cat = categories[3] -> "Utilities"
      [] cat = categories[4] -> "Entertainment"

\* the first element of seq that occurs in content; 0 when none does
first_in(seq, content) ==
    IF \E i \in 1..Len(seq) : Contains(seq[i], content)
    THEN CHOOSE i \in 1..Len(seq) :
            /\ Contains(seq[i], content)
            /\ \A j \in 1..(i - 1) : ~Contains(seq[j], content)
    ELSE 0

DigitChar(d) ==
    CASE d = 0 -> "0" [] d = 1 -> "1" [] d = 2 -> "2" [] d = 3 -> "3" [] d = 4 -> "4"
      [] d = 5 -> "5" [] d = 6 -> "6" [] d = 7 -> "7" [] d = 8 -> "8" [] d = 9 -> "9"

\* str(year) of a four-digit year
str_year(y) ==
    <<DigitChar(y \div 1000), DigitChar((y \div 100) % 10),
      DigitChar((y \div 10) % 10), DigitChar(y % 10)>>

\* f"{month_num:02d}"
two_digits(m) == <<DigitChar(m \div 10), DigitChar(m % 10)>>

\* f"{year}-{month_num:02d}"
format_date_filter(year, month_num) == year \o <<"-">> \o two_digits(month_num)

\* Timestamp.strftime('%Y-%m')
strftime_Ym(date) == str_year(date[1]) \o <<"-">> \o two_digits(date[2])

\* the year text of the date filter
filter_year(content, clock) ==
    IF Contains(s_2025, content) THEN s_2025 ELSE str_year(clock)

\* the date filter of a query: None, or the text "YYYY-MM" of the first month
\* of the list that the content mentions
date_filter_of(content, clock) ==
    LET m == first_in(months, content)
    IN  IF m = 0 THEN None
        ELSE format_date_filter(filter_year(content, clock), m)

\* data[data['category'] == category][['date', 'amount', 'description']],
\* then the rows whose year-month text equals the filter
select_expenses(rows, category, date_filter) ==
    LET of_category == SelectSeq(rows, LAMBDA r : r.category = category)
        shown == [i \in 1..Len(of_category) |->
                    Restrict(of_category[i], {"date", "amount", "description"})]
    IN  IF date_filter = None THEN shown
        ELSE SelectSeq(shown, LAMBDA r : strftime_Ym(r.date) = date_filter)

\* the message handle_query sends for a message text, given the session's
\* analyzer (None when the session holds none) and the year of the clock
handle_query(analyzer, message, clock) ==
    IF analyzer = None \/ analyzer.data = None
        THEN [kind |-> "No data loaded"]
    ELSE LET content == lower(message)
         IN  IF Contains(s_budget, content)
                 THEN [kind |-> "Current budgets", budgets |-> analyzer.budgets]
             ELSE IF first_in(categories, content) # 0
                 THEN IF "category" \notin analyzer.data.cols
                          THEN [kind |-> "Error processing query",
                                exc |-> KeyError("category")]
                      ELSE LET category == capitalize(
                                   categories[first_in(categories, content)])
                               date_filter == date_filter_of(content, clock)
                               expenses == select_expenses(analyzer.data.rows,
                                                           category, date_filter)
                           IN  [kind |-> IF expenses # <<>> THEN "Expenses"
                                                            ELSE "No expenses found",
                                category |-> category,
                                date_filter |-> date_filter,
                                expenses |-> expenses]
             \* "update_budget" contains "budget": this branch is never taken
             ELSE IF Contains(s_update_budget, content)
                 THEN [kind |-> "Enter new budget amounts"]
             ELSE [kind |-> "Query not recognized"]

----------------------------------------------------------------------------
(* The chat front-end: start and process_csv *)

\* generate_report: the summary and the anomaly section of the report text
generate_report(self) ==
    LET summary == generate_summary(self)
    IN  IF summary.exc # NoException THEN Raise(self, summary.exc)
        ELSE Return(self,
                [summary |-> summary.ret,
                 no_anomalies |-> (self.anomalies = None
                                   \/ self.anomalies.index = <<>>),
                 anomaly_details |-> IF self.anomalies = None THEN <<>>
                                     ELSE self.anomalies.index])

\* generate_pdf_report: the summary again, then the path of the document
generate_pdf_report(self) ==
    LET summary == generate_summary(self)
    IN  IF summary.exc # NoException THEN Raise(self, summary.exc)
        ELSE Return(self, [pdf_path |-> "public/reports/financial_report.pdf"])

\* a field of the budget form that the user left empty
Blank == <<>>

\* float() of a text of decimal digits
DigitValue(ch) == CHOOSE d \in 0..9 : DigitChar(d) = ch
RECURSIVE float(_)
float(text) ==
    IF Len(text) = 1 THEN DigitValue(text[1])
    ELSE 10 * float(SubSeq(text, 1, Len(text) - 1)) + DigitValue(text[Len(text)])

\* prompt_budget_update's new_budgets: a field that is filled in gives the
\* budget, a blank one keeps the analyzer's current budget
new_budgets(form, current) ==
    [Food |-> IF form.food_budget # Blank
                  THEN float(form.food_budget) ELSE current.Food,
     Travel |-> IF form.travel_budget # Blank
                    THEN float(form.travel_budget) ELSE current.Travel,
     Utilities |-> IF form.utilities_budget # Blank
                       THEN float(form.utilities_budget) ELSE current.Utilities,
     Entertainment |-> IF form.entertainment_budget # Blank
                           THEN float(form.entertainment_budget)
                           ELSE current.Entertainment]

\* an order of the statements in which the analyzer is stored before it is used
process_csv_steps_store_first == <<
    "user_session.set", "load_data", "auto_categorize", "detect_anomalies",
    "visualize_data", "generate_report", "generate_pdf_report", "send">>

\* the statements of process_csv's try block, in the order of the source
process_csv_steps == <<
    "load_data", "auto_categorize", "detect_anomalies", "visualize_data",
    "user_session.set", "generate_report", "generate_pdf_report", "send">>

\* the rows of the sample CSV that start() generates, cut to MaxRows rows: the
\* dates run from 2025-01-01, the four descriptions repeat in order
sample_descriptions == <<CoffeeShop, FlightTicket,
    <<"E", "l", "e", "c", "t", "r", "i", "c", " ", "b", "i", "l", "l">>,
    MovieTicket>>

\* the amounts are drawn at random around 100, below 0 at times; two of the
\* values a draw can give
SampleAmounts == {-4, 142}

SampleFiles ==
    {[readable |-> TRUE, cols |-> required_columns,
      rows |-> [i \in 1..MaxRows |->
                  Row(<<2025, 1>>, "Uncategorized", a[i],
                      sample_descriptions[((i - 1) % Len(sample_descriptions)) + 1])]] :
        a \in [1..MaxRows -> SampleAmounts]}

\* the files a user uploads: they vary the date and the description
UploadFiles ==
    Files(RowsOver({<<2024, 1>>, <<2025, 1>>}, {"Uncategorized"},
                   {200}, {CoffeeShop, FlightTicket}))

\* the message texts given to handle_query
Queries == {
    <<"s", "h", "o", "w", " ", "f", "o", "o", "d", " ", "e", "x", "p", "e", "n", "s", "e", "s">>,
    <<"S", "h", "o", "w", " ", "T", "r", "a", "v", "e", "l", " ", "e", "x", "p", "e", "n", "s", "e", "s", " ", "f", "o", "r", " ", "J", "a", "n", "u", "a", "r", "y", " ", "2", "0", "2", "5">>,
    <<"f", "o", "o", "d", " ", "e", "x", "p", "e", "n", "s", "e", "s", " ", "i", "n", " ", "j", "a", "n", "u", "a", "r", "y", " ", "2", "0", "2", "4">>,
    <<"C", "h", "e", "c", "k", " ", "b", "u", "d", "g", "e", "t", " ", "s", "t", "a", "t", "u", "s">>,
    <<"t", "r", "a", "v", "e", "l", " ", "a", "n", "d", " ", "f", "o", "o", "d", " ", "i", "n", " ", "J", "a", "n", "u", "a", "r", "y">>,
    <<"h", "e", "l", "l", "o">>,
    <<"u", "p", "d", "a", "t", "e", "_", "b", "u", "d", "g", "e", "t">> }

\* the forms a user returns to prompt_budget_update: no form, or the four
\* fields, each blank or a number in digits
FormText == <<"2", "0", "0">>
Form(f, t, u, e) ==
    [food_budget |-> f, travel_budget |-> t, utilities_budget |-> u,
     entertainment_budget |-> e]
Forms == {None,
          Form(Blank, Blank, Blank, Blank),
          Form(FormText, Blank, Blank, Blank),
          Form(FormText, FormText, FormText, FormText)}

NextStep ==
    IF pc = "process_csv" /\ Len(steps) < Len(process_csv_steps)
    THEN process_csv_steps[Len(steps) + 1] ELSE "none"

\* on_chat_start: the session starts without an analyzer, the user is asked
\* to choose between an upload and the sample data
Start ==
    /\ pc = "idle"
    /\ session' = None
    /\ pc' = "ask_action"
    /\ op' = "start"
    /\ reply' = [kind |->
           "Would you like to upload your expense CSV file or use sample data?"]
    /\ UNCHANGED <<data, anomalies, budgets, exc, ret, steps, csv, query, now,
                   prompt, report_content>>

\* process_csv is entered: a new analyzer is constructed
EnterProcessCsv(f) ==
    /\ csv' = f
    /\ pc' = "process_csv"
    /\ steps' = <<>>
    /\ data' = NewAnalyzer.data
    /\ anomalies' = NewAnalyzer.anomalies
    /\ budgets' = NewAnalyzer.budgets
    /\ op' = "__init__"
    /\ exc' = NoException
    /\ ret' = None

\* the sample CSV is written and announced; process_csv is called only after
\* the announcement is sent
ChooseSample(f) ==
    /\ pc = "ask_action"
    /\ csv' = f
    /\ pc' = "sample_generated"
    /\ reply' = [kind |-> "Sample CSV generated."]
    /\ op' = "start"
    /\ UNCHANGED <<data, anomalies, budgets, exc, ret, session, steps, query,
                   now, prompt, report_content>>

SampleProcess ==
    /\ pc = "sample_generated"
    /\ EnterProcessCsv(csv)
    /\ UNCHANGED <<session, query, now, reply, prompt, report_content>>

ChooseUpload ==
    /\ pc = "ask_action"
    /\ pc' = "ask_file"
    /\ op' = "start"
    /\ reply' = [kind |-> "Please upload your expense CSV file"]
    /\ UNCHANGED <<data, anomalies, budgets, exc, ret, session, steps, csv,
                   query, now, prompt, report_content>>

ChooseNothing ==
    /\ pc = "ask_action"
    /\ pc' = "done"
    /\ reply' = [kind |-> "No action selected. Please choose an option."]
    /\ op' = "start"
    /\ UNCHANGED <<data, anomalies, budgets, exc, ret, session, steps, csv,
                   query, now, prompt, report_content>>

UploadFile(f) ==
    /\ pc = "ask_file"
    /\ EnterProcessCsv(f)
    /\ UNCHANGED <<session, query, now, reply, prompt, report_content>>

UploadNothing ==
    /\ pc = "ask_file"
    /\ pc' = "done"
    /\ reply' = [kind |-> "No file uploaded. Please try again."]
    /\ op' = "start"
    /\ UNCHANGED <<data, anomalies, budgets, exc, ret, session, steps, csv,
                   query, now, prompt, report_content>>

\* a statement of the try block that calls the analyzer: an exception ends
\* process_csv with the error message, a return moves to the next statement
Call(result, name) ==
    /\ Apply(result, name)
    /\ IF result.exc # NoException
       THEN /\ pc' = "done"
            /\ reply' = [kind |-> "Error processing file", exc |-> result.exc]
            /\ steps' = steps
       ELSE /\ pc' = pc
            /\ reply' = reply
            /\ steps' = Append(steps, name)
    /\ report_content' = IF name = "generate_report" /\ result.exc = NoException
                             THEN result.ret ELSE report_content
    /\ UNCHANGED <<session, csv, query, now, prompt>>

ProcessLoad ==
    /\ NextStep = "load_data"
    /\ Call(load_data(Self, csv), "load_data")

ProcessCategorize ==
    /\ NextStep = "auto_categorize"
    /\ Call(auto_categorize(Self), "auto_categorize")

ProcessDetect(labels) ==
    /\ NextStep = "detect_anomalies"
    /\ Call(detect_anomalies(Self, labels), "detect_anomalies")

ProcessVisualize(trend) ==
    /\ NextStep = "visualize_data"
    /\ Call(visualize_data(Self, trend), "visualize_data")

ProcessStore ==
    /\ NextStep = "user_session.set"
    /\ session' = Analyzer
    /\ steps' = Append(steps, "user_session.set")
    /\ op' = "user_session.set"
    /\ UNCHANGED <<data, anomalies, budgets, exc, ret, pc, csv, query, now,
                   reply, prompt, report_content>>

ProcessReport ==
    /\ NextStep = "generate_report"
    /\ Call(generate_report(Self), "generate_report")

ProcessPdf ==
    /\ NextStep = "generate_pdf_report"
    /\ Call(generate_pdf_report(Self), "generate_pdf_report")

ProcessSend ==
    /\ NextStep = "send"
    /\ pc' = "done"
    /\ steps' = Append(steps, "send")
    /\ reply' = [kind |-> "Financial Report", report |-> report_content]
    /\ op' = "send"
    /\ UNCHANGED <<data, anomalies, budgets, exc, ret, session, csv, query,
                   now, prompt, report_content>>

\* The coroutines run on one event loop: another coroutine runs only while
\* start or process_csv waits (for the user's choice, for the announcement
\* of the sample to be sent, for the upload, for the report message to be
\* sent) or after they ended.
Awaiting ==
    pc \in {"ask_action", "sample_generated", "ask_file", "done"} \/ NextStep = "send"

HandleQuery(message) ==
    /\ Awaiting
    /\ query' = message
    /\ reply' = handle_query(IF session = None THEN None ELSE Self, message, now)
    /\ op' = "handle_query"
    /\ UNCHANGED <<data, anomalies, budgets, exc, ret, session, pc, steps, csv,
                   now, prompt, report_content>>

\* prompt_budget_update up to its wait for the form: the defaults of the
\* inputs are read from the session's analyzer, which raises when the
\* session holds none; then the form is sent to the user
PromptBudgetUpdate ==
    /\ Awaiting
    /\ prompt = "idle"
    /\ op' = "prompt_budget_update"
    /\ IF session = None
       THEN /\ exc' = NoAnalyzer
            /\ UNCHANGED <<reply, prompt>>
       ELSE /\ exc' = NoException
            /\ reply' = [kind |-> "Enter new budget amounts", defaults |-> budgets]
            /\ prompt' = "ask_form"
    /\ query' = IF session = None THEN query ELSE <<>>
    /\ UNCHANGED <<data, anomalies, budgets, ret, session, pc, steps, csv, now,
                   report_content>>

\* prompt_budget_update from the answer on: a form that came back updates the
\* budgets of the session's analyzer and the new budgets are reported
BudgetForm(form) ==
    /\ Awaiting
    /\ prompt = "ask_form"
    /\ prompt' = "idle"
    /\ op' = "prompt_budget_update"
    /\ IF form # None /\ session # None
       THEN /\ budgets' = new_budgets(form, budgets)
            /\ reply' = [kind |-> "Budgets updated",
                         new_budgets |-> new_budgets(form, budgets)]
            /\ query' = <<>>
       ELSE UNCHANGED <<budgets, reply, query>>
    /\ UNCHANGED <<data, anomalies, exc, ret, session, pc, steps, csv, now,
                   report_content>>

NextApp ==
    \/ Start
    \/ \E f \in SampleFiles : ChooseSample(f)
    \/ SampleProcess
    \/ PromptBudgetUpdate
    \/ \E form \in Forms : BudgetForm(form)
    \/ ChooseUpload
    \/ ChooseNothing
    \/ \E f \in UploadFiles : UploadFile(f)
    \/ UploadNothing
    \/ ProcessLoad
    \/ ProcessCategorize
    \/ \E labels \in Labellings(RowCount) : ProcessDetect(labels)
    \/ \E trend \in PlotOutcomes(Self) : ProcessVisualize(trend)
    \/ ProcessStore
    \/ ProcessReport
    \/ ProcessPdf
    \/ ProcessSend
    \/ \E message \in Queries : HandleQuery(message)

\* the years the clock may show: the year the query code names, and a later one
ClockYears == {2025, 2026}

InitApp == InitIn(ClockYears)

SpecApp == InitApp /\ [][NextApp]_vars

----------------------------------------------------------------------------
(* Properties of the chat front-end *)

\* the years a query of the model may name
QueryYears == {2024, 2025, 2026}

MentionedYears(message) == {y \in QueryYears : Contains(str_year(y), message)}

\* the year a query asks for: the one it names, the clock's when it names none
RequestedYear(message, clock) ==
    IF MentionedYears(message) = {} THEN clock
    ELSE CHOOSE y \in MentionedYears(message) : TRUE

\* the records a category query asks for: those of the first category named,
\* and, when a month is named, of that month in the requested year
RequestedExpenses(rows, message, clock) ==
    LET content == lower(message)
        category == capitalize(categories[first_in(categories, content)])
        month == first_in(months, content)
        wanted(r) == /\ r.category = category
                     /\ month # 0 => r.date = <<RequestedYear(message, clock), month>>
        chosen == SelectSeq(rows, wanted)
    IN  [i \in 1..Len(chosen) |-> Restrict(chosen[i], {"date", "amount", "description"})]

CategoryQueryAnswered ==
    /\ op = "handle_query"
    /\ session # None
    /\ data # None
    /\ ~Contains(s_budget, lower(query))
    /\ first_in(categories, lower(query)) # 0

\* C8: a query that names a category and not "budget" is answered with exactly
\* the loaded records of that category, of the named month in the year the
\* query names (the current year when it names none) when a month is named.
QueryReturnsRequestedExpenses ==
    CategoryQueryAnswered =>
        /\ reply.kind \in {"Expenses", "No expenses found"}
        /\ reply.expenses = RequestedExpenses(data.rows, query, now)

\* the analyzer is loaded, categorized and anomaly-labelled
AnalyzerReady ==
    /\ WellFormedData
    /\ {"category", "anomaly"} \subseteq data.cols
    /\ anomalies # None
    /\ \A i \in 1..Len(data.rows) :
          /\ data.rows[i].category \in TableCategories
          /\ data.rows[i].anomaly \in {1, -1}

PipelineOrder == <<"load_data", "auto_categorize", "detect_anomalies">>

\* C10: process_csv runs load_data, auto_categorize, detect_anomalies in this
\* order; the analyzer is stored in the session, and the report generated,
\* only after the three completed; when a step raised no analyzer is stored;
\* handle_query answers from an analyzer only if it is stored and ready, and
\* answers that no data is loaded otherwise.
PipelineCompletesBeforeStore ==
    /\ \A k \in 1..Len(PipelineOrder) : Len(steps) >= k => steps[k] = PipelineOrder[k]
    /\ (\/ session # None
        \/ op \in {"generate_report", "generate_pdf_report", "send"}
        \/ reply.kind = "Financial Report")
           => (Len(steps) >= Len(PipelineOrder) /\ AnalyzerReady)
    /\ (pc = "done" /\ Len(steps) < Len(PipelineOrder)) => session = None
    /\ op = "handle_query" =>
          IF session = None THEN reply.kind = "No data loaded"
          ELSE reply.kind # "No data loaded" /\ AnalyzerReady

\* a query answered from the stored analyzer after process_csv ended
QueryAnsweredFromStoredAnalyzer ==
    /\ pc = "done"
    /\ session # None
    /\ steps = process_csv_steps
    /\ op = "handle_query"
    /\ reply.kind = "Expenses"

=============================================================================
